---- MODULE Spec2Model ----
(***************************************************************************)
(* A model of regex-dfa's character-range algebra (src/src/char_map.rs)    *)
(* and of its NFA algorithms (src/src/nfa.rs): predicate elimination and   *)
(* subset-construction determinization.                                    *)
(*                                                                         *)
(* Code points are u32 in the program.  TLC's integers are 32-bit signed,  *)
(* so the code-point space 0 .. u32::MAX is scaled to 0 .. MaxCode; the    *)
(* code only compares with, and saturates at, the maximum, and MaxCode     *)
(* plays that part everywhere std::u32::MAX is written in the source.      *)
(***************************************************************************)
EXTENDS Integers, Sequences, FiniteSets, TLC

\* The largest code point (stands for std::u32::MAX).
MaxCode == 5

\* The most ranges an input range set holds.
MaxRanges == 3

Codes == 0 .. MaxCode

Min(a, b) == IF a <= b THEN a ELSE b

Max(a, b) == IF a >= b THEN a ELSE b

(***************************************************************************)
(* CharRange                                                               *)
(***************************************************************************)

\* CharRange::new
CharRange(s, e) == [start |-> s, end |-> e]

\* CharRange::contains
RangeContains(r, ch) == r.start <= ch /\ ch <= r.end

\* CharRange::is_empty
RangeIsEmpty(r) == r.start > r.end

\* CharRange::intersection
RangeIntersection(r, o) == CharRange(Max(r.start, o.start), Min(r.end, o.end))

\* Cover as it would be if it kept the end of `other` instead of the larger
\* end.
CoverKeepsOtherEnd(r, o) ==
  IF RangeIsEmpty(r) THEN o
  ELSE IF RangeIsEmpty(o) THEN r
  ELSE CharRange(Min(r.start, o.start), o.end)

\* CharRange::cover
Cover(r, o) ==
  IF RangeIsEmpty(r) THEN o
  ELSE IF RangeIsEmpty(o) THEN r
  ELSE CharRange(Min(r.start, o.start), Max(r.end, o.end))

\* u32::saturating_add(1)
SatSucc(n) == IF n < MaxCode THEN n + 1 ELSE MaxCode

(***************************************************************************)
(* CharSet: a sequence of ranges (the unit payload of CharMap<()> is       *)
(* dropped).  An operation that can panic returns [panic, elts].           *)
(***************************************************************************)

\* The position at which insertion sort puts r: after every element whose
\* start is <= r.start (slice::sort_by is stable).
RECURSIVE InsertByStart(_, _)
InsertByStart(sorted, r) ==
  IF sorted = <<>> THEN <<r>>
  ELSE IF sorted[Len(sorted)].start <= r.start THEN Append(sorted, r)
  ELSE Append(InsertByStart(SubSeq(sorted, 1, Len(sorted) - 1), r),
              sorted[Len(sorted)])

RECURSIVE SortByStart(_)
SortByStart(v) ==
  IF v = <<>> THEN <<>>
  ELSE InsertByStart(SortByStart(SubSeq(v, 1, Len(v) - 1)), v[Len(v)])

\* The check of CharMap::sort over windows(2).
HasOverlap(v) == \E i \in 1 .. Len(v) - 1 : v[i].end >= v[i + 1].start

\* CharSet::from_vec: sort, panic on overlapping ranges.
FromVec(v) ==
  LET s == SortByStart(v)
  IN  IF HasOverlap(s) THEN [panic |-> TRUE, elts |-> <<>>]
      ELSE [panic |-> FALSE, elts |-> s]

\* The loop of CharSet::union: i1, i2 are the positions of r1, r2 (past the
\* end when the iterator returned None), cur is cur_range.
RECURSIVE UnionLoop(_, _, _, _, _, _)
UnionLoop(e1, e2, i1, i2, cur, ret) ==
  IF i1 > Len(e1) /\ i2 > Len(e2) THEN
    IF ~RangeIsEmpty(cur) THEN Append(ret, cur) ELSE ret
  ELSE
    LET r1_start == IF i1 <= Len(e1) THEN e1[i1].start ELSE MaxCode
        r2_start == IF i2 <= Len(e2) THEN e2[i2].start ELSE MaxCode
        flush == ~RangeIsEmpty(cur) /\ Min(r1_start, r2_start) > cur.end
        ret1 == IF flush THEN Append(ret, cur) ELSE ret
        cur1 == IF flush THEN CharRange(1, 0) ELSE cur
    IN  IF r1_start < r2_start \/ i2 > Len(e2)
        THEN UnionLoop(e1, e2, i1 + 1, i2, Cover(cur1, e1[i1]), ret1)
        ELSE UnionLoop(e1, e2, i1, i2 + 1, Cover(cur1, e2[i2]), ret1)

\* CharSet::union
Union(self, other) ==
  IF self = <<>> THEN [panic |-> FALSE, elts |-> other]
  ELSE IF other = <<>> THEN [panic |-> FALSE, elts |-> self]
  ELSE FromVec(UnionLoop(self, other, 1, 1, CharRange(1, 0), <<>>))

\* IntersectLoop as it would be if the scan dropped the head of `other`
\* after every range of self, also when that head reaches past the range.
RECURSIVE IntersectLoopAlwaysAdvance(_, _, _, _, _)
IntersectLoopAlwaysAdvance(self, other, i, j, ret) ==
  IF i > Len(self) THEN ret
  ELSE IF j > Len(other) THEN IntersectLoopAlwaysAdvance(self, other, i + 1, j, ret)
  ELSE
    LET r == self[i]
        s == other[j]
        ret1 == IF s.end >= r.start /\ s.start <= r.end
                THEN Append(ret, CharRange(Max(s.start, r.start), Min(s.end, r.end)))
                ELSE ret
    IN  IF s.end >= r.end
        THEN IntersectLoopAlwaysAdvance(self, other, i + 1, j + 1, ret1)
        ELSE IntersectLoopAlwaysAdvance(self, other, i, j + 1, ret1)

\* The loops of CharMap::intersect: i is the position in self.elts, j the
\* position of the head of the slice `other`.
RECURSIVE IntersectLoop(_, _, _, _, _)
IntersectLoop(self, other, i, j, ret) ==
  IF i > Len(self) THEN ret
  ELSE IF j > Len(other) THEN IntersectLoop(self, other, i + 1, j, ret)
  ELSE
    LET r == self[i]
        s == other[j]
        ret1 == IF s.end >= r.start /\ s.start <= r.end
                THEN Append(ret, CharRange(Max(s.start, r.start), Min(s.end, r.end)))
                ELSE ret
    IN  IF s.end >= r.end
        THEN IntersectLoop(self, other, i + 1, j, ret1)
        ELSE IntersectLoop(self, other, i, j + 1, ret1)

\* CharSet::intersect (CharMap::intersect with the unit payload)
Intersect(self, other) == IntersectLoop(self, other, 1, 1, <<>>)

\* NegatedLoop as it would be if a gap ran up to the start of the next range
\* instead of stopping one short of it.
RECURSIVE NegatedLoopGapTooLong(_, _, _, _)
NegatedLoopGapTooLong(self, i, last_end, ret) ==
  IF i > Len(self) THEN
    IF last_end < MaxCode THEN Append(ret, CharRange(last_end, MaxCode)) ELSE ret
  ELSE
    LET range == self[i]
        ret1 == IF range.start > last_end
                THEN Append(ret, CharRange(last_end, range.start))
                ELSE ret
    IN  NegatedLoopGapTooLong(self, i + 1, SatSucc(range.end), ret1)

\* The loop of CharSet::negated; every push is of a non-empty range
\* (range.start > last_end), so CharMap::push never panics here.
RECURSIVE NegatedLoop(_, _, _, _)
NegatedLoop(self, i, last_end, ret) ==
  IF i > Len(self) THEN
    IF last_end < MaxCode THEN Append(ret, CharRange(last_end, MaxCode)) ELSE ret
  ELSE
    LET range == self[i]
        ret1 == IF range.start > last_end
                THEN Append(ret, CharRange(last_end, range.start - 1))
                ELSE ret
    IN  NegatedLoop(self, i + 1, SatSucc(range.end), ret1)

\* CharSet::negated
Negated(self) == NegatedLoop(self, 1, 0, <<>>)

\* Membership of a code point in a sequence of ranges.
InSet(elts, ch) == \E i \in 1 .. Len(elts) : RangeContains(elts[i], ch)

\* The invariant of a range set: ascending, each range non-empty and ending
\* strictly before the next starts (what CharMap::sort accepts).
IsRangeSet(elts) ==
  /\ \A i \in 1 .. Len(elts) : ~RangeIsEmpty(elts[i])
  /\ ~HasOverlap(elts)

AllRanges == {CharRange(s, e) : s \in Codes, e \in Codes}

NonEmptyRanges == {r \in AllRanges : ~RangeIsEmpty(r)}

\* Every range set of at most MaxRanges ranges.
RangeSets ==
  UNION {{q \in [1 .. n -> NonEmptyRanges] : ~HasOverlap(q)} : n \in 0 .. MaxRanges}

\* CharSet::full
Full == FromVec(<<CharRange(0, MaxCode)>>)

\* The code points a char of a &str can be: every char is below u32::MAX.
Chars == 0 .. MaxCode - 1

\* ExceptLoop as it would be if a gap ran up to the excluded code point
\* itself instead of stopping one short of it.
RECURSIVE ExceptLoopGapTooLong(_, _, _, _, _)
ExceptLoopGapTooLong(chars, i, next_allowed, n0, ret) ==
  IF i > Len(chars) THEN [panic |-> FALSE, n |-> n0, ret |-> ret]
  ELSE LET n == chars[i]
           ret1 == IF n > next_allowed
                   THEN Append(ret, CharRange(next_allowed, n))
                   ELSE ret
       IN  IF n < next_allowed THEN [panic |-> TRUE, n |-> n, ret |-> ret]
           ELSE IF n < MaxCode THEN ExceptLoopGapTooLong(chars, i + 1, n + 1, n, ret1)
           ELSE [panic |-> FALSE, n |-> n, ret |-> ret1]

\* ExceptLoop as it would be if it compared with the previous code point
\* instead of the one after it: a repeated code point goes unnoticed.
RECURSIVE ExceptLoopAllowsRepeats(_, _, _, _, _)
ExceptLoopAllowsRepeats(chars, i, next_allowed, n0, ret) ==
  IF i > Len(chars) THEN [panic |-> FALSE, n |-> n0, ret |-> ret]
  ELSE LET n == chars[i]
           ret1 == IF n > next_allowed
                   THEN Append(ret, CharRange(next_allowed, n - 1))
                   ELSE ret
       IN  IF n + 1 < next_allowed THEN [panic |-> TRUE, n |-> n, ret |-> ret]
           ELSE IF n < MaxCode THEN ExceptLoopAllowsRepeats(chars, i + 1, n + 1, n, ret1)
           ELSE [panic |-> FALSE, n |-> n, ret |-> ret1]

\* The loop of CharSet::except over chars.chars(): i is the position of the
\* next char, n0 the value n holds.  The result gives whether the loop
\* panicked, n and ret as the loop leaves them.
RECURSIVE ExceptLoop(_, _, _, _, _)
ExceptLoop(chars, i, next_allowed, n0, ret) ==
  IF i > Len(chars) THEN [panic |-> FALSE, n |-> n0, ret |-> ret]
  ELSE LET n == chars[i]
           ret1 == IF n > next_allowed
                   THEN Append(ret, CharRange(next_allowed, n - 1))
                   ELSE ret
       IN  IF n < next_allowed THEN [panic |-> TRUE, n |-> n, ret |-> ret]
           ELSE IF n < MaxCode THEN ExceptLoop(chars, i + 1, n + 1, n, ret1)
           ELSE [panic |-> FALSE, n |-> n, ret |-> ret1]

\* CharSet::except
Except(chars) ==
  IF chars = <<>> THEN Full
  ELSE LET l == ExceptLoop(chars, 1, 0, 0, <<>>)
       IN  IF l.panic THEN [panic |-> TRUE, elts |-> <<>>]
           ELSE FromVec(IF l.n < MaxCode
                        THEN Append(l.ret, CharRange(l.n + 1, MaxCode))
                        ELSE l.ret)

(***************************************************************************)
(* CharMap<T>: a sequence of [range, value] pairs.                         *)
(***************************************************************************)

\* NormalizeLoop as it would be if it merged adjacent ranges without
\* comparing their values.
RECURSIVE NormalizeLoopAnyValue(_, _, _)
NormalizeLoopAnyValue(elts, i, vec) ==
  IF i > Len(elts) THEN vec
  ELSE LET elt == elts[i]
           last == vec[Len(vec)]
       IN  IF elt.range.start = last.range.end + 1
           THEN NormalizeLoopAnyValue(elts, i + 1,
                  [vec EXCEPT ![Len(vec)].range.end = elt.range.end])
           ELSE NormalizeLoopAnyValue(elts, i + 1, Append(vec, elt))

\* `for elt in rest` of CharMap::normalize.
RECURSIVE NormalizeLoop(_, _, _)
NormalizeLoop(elts, i, vec) ==
  IF i > Len(elts) THEN vec
  ELSE LET elt == elts[i]
           last == vec[Len(vec)]
       IN  IF elt.range.start = last.range.end + 1 /\ elt.value = last.value
           THEN NormalizeLoop(elts, i + 1,
                  [vec EXCEPT ![Len(vec)].range.end = elt.range.end])
           ELSE NormalizeLoop(elts, i + 1, Append(vec, elt))

\* CharMap::normalize
Normalize(elts) ==
  IF elts = <<>> THEN <<>> ELSE NormalizeLoop(elts, 2, <<elts[1]>>)

\* CharMap::get on a sorted map of non-overlapping ranges: the binary search
\* finds the one entry whose range holds ch, if there is one.
Get(elts, ch) ==
  IF \E i \in 1 .. Len(elts) : RangeContains(elts[i].range, ch)
  THEN [some |-> TRUE,
        value |-> elts[CHOOSE i \in 1 .. Len(elts) : RangeContains(elts[i].range, ch)].value]
  ELSE [some |-> FALSE, value |-> 0]

\* CharMap::push: panics on an empty range.
Push(elts, range) ==
  IF RangeIsEmpty(range) THEN [panic |-> TRUE, elts |-> elts]
  ELSE [panic |-> FALSE, elts |-> Append(elts, range)]

\* SortCheck as it would be if the comparison of the windows were strict.
SortCheckStrict(v) == \E i \in 1 .. Len(v) - 1 : v[i].end > v[i + 1].start

\* The windows(2) loop of CharMap::sort.
SortCheck(v) == \E i \in 1 .. Len(v) - 1 : v[i].end >= v[i + 1].start

\* CharMap::sort (unit payload)
Sort(v) ==
  LET s == SortByStart(v)
  IN  IF SortCheck(s) THEN [panic |-> TRUE, elts |-> <<>>]
      ELSE [panic |-> FALSE, elts |-> s]

(***************************************************************************)
(* CharMultiMap: a sequence of [range, value] pairs, ranges may overlap.   *)
(***************************************************************************)

\* The ascending sequence of the numbers of a set (sort, then dedup).
RECURSIVE SortedSeqOf(_)
SortedSeqOf(S) ==
  IF S = {} THEN <<>>
  ELSE LET m == CHOOSE x \in S : \A y \in S : x <= y
       IN  <<m>> \o SortedSeqOf(S \ {m})

\* StartChars as it would be without the ends: the starts only.
StartCharsNoEnds(elts) ==
  SortedSeqOf({elts[i].range.start : i \in 1 .. Len(elts)})

\* start_chars of CharMultiMap::split: every start, and every end + 1 of a
\* range that does not end at the maximum, sorted and deduplicated.
StartChars(elts) ==
  SortedSeqOf({elts[i].range.start : i \in 1 .. Len(elts)}
              \cup {elts[i].range.end + 1 :
                      i \in {k \in 1 .. Len(elts) : elts[k].range.end < MaxCode}})

\* slice::binary_search of a value the sorted slice holds: its position.
PositionOf(sc, x) == CHOOSE i \in 1 .. Len(sc) : sc[i] = x

\* SplitEntry as it would be if `last` were never moved to the boundary:
\* every fragment starts where the entry starts.
RECURSIVE SplitEntryKeepsLast(_, _, _, _, _, _)
SplitEntryKeepsLast(range, value, sc, idx, last, ret) ==
  IF idx > Len(sc) \/ sc[idx] > range.end
  THEN Append(ret, [range |-> CharRange(last, range.end), value |-> value])
  ELSE SplitEntryKeepsLast(range, value, sc, idx + 1, last,
                  Append(ret, [range |-> CharRange(last, sc[idx] - 1), value |-> value]))

\* The inner loop of split for one entry: idx is the position (from 1) of the
\* next boundary, last the start of the fragment being cut.
RECURSIVE SplitEntry(_, _, _, _, _, _)
SplitEntry(range, value, sc, idx, last, ret) ==
  IF idx > Len(sc) \/ sc[idx] > range.end
  THEN Append(ret, [range |-> CharRange(last, range.end), value |-> value])
  ELSE SplitEntry(range, value, sc, idx + 1, sc[idx],
                  Append(ret, [range |-> CharRange(last, sc[idx] - 1), value |-> value]))

RECURSIVE SplitLoop(_, _, _, _)
SplitLoop(elts, sc, i, ret) ==
  IF i > Len(elts) THEN ret
  ELSE SplitLoop(elts, sc, i + 1,
                 SplitEntry(elts[i].range, elts[i].value, sc,
                            PositionOf(sc, elts[i].range.start) + 1,
                            elts[i].range.start, ret))

\* CharMultiMap::split
Split(elts) == SplitLoop(elts, StartChars(elts), 1, <<>>)

\* The keys of a set of ranges in ascending order of start (sort_by over the
\* HashMap's entries; the keys split() produces are identical or disjoint, so
\* no two distinct keys share a start and the order is determined).
RECURSIVE RangesByStart(_)
RangesByStart(S) ==
  IF S = {} THEN <<>>
  ELSE LET m == CHOOSE r \in S : \A o \in S : r.start <= o.start
       IN  <<m>> \o RangesByStart(S \ {m})

\* Group as it would be without the split: the values are collected by the
\* ranges of the input as they are.
GroupNoSplit(elts) ==
  LET keys == RangesByStart({elts[i].range : i \in 1 .. Len(elts)})
  IN  [k \in 1 .. Len(keys) |->
         [range |-> keys[k],
          value |-> {elts[i].value : i \in {j \in 1 .. Len(elts) : elts[j].range = keys[k]}}]]

\* CharMultiMap<usize>::group: split, collect the values of each distinct
\* range into a set, order the ranges by start.
Group(elts) ==
  LET sp == Split(elts)
      keys == RangesByStart({sp[i].range : i \in 1 .. Len(sp)})
  IN  [k \in 1 .. Len(keys) |->
         [range |-> keys[k],
          value |-> {sp[i].value : i \in {j \in 1 .. Len(sp) : sp[j].range = keys[k]}}]]

(***************************************************************************)
(* Nfa: `states` is the Vec<NfaState>; state indices count from 0 as in    *)
(* the source, so state i is st[i + 1].                                    *)
(***************************************************************************)

\* NfaState::new
NfaState(accepting) ==
  [ranges |-> <<>>, eps |-> <<>>, predicates |-> <<>>, accepting |-> accepting]

StateIdx(st) == 0 .. Len(st) - 1

\* EpsClosureLoop as it would be if it followed predicate edges as well.
RECURSIVE EpsClosureLoopThroughPredicates(_, _, _)
EpsClosureLoopThroughPredicates(st, ret, new_states) ==
  LET next_states ==
        UNION {{st[s + 1].eps[k] : k \in 1 .. Len(st[s + 1].eps)}
                 \cup {st[s + 1].predicates[k].target :
                         k \in 1 .. Len(st[s + 1].predicates)} : s \in new_states}
  IN  IF next_states \subseteq ret THEN ret
      ELSE EpsClosureLoopThroughPredicates(st, ret \cup (next_states \ ret),
                                           next_states \ ret)

\* The loop of Nfa::eps_closure.
RECURSIVE EpsClosureLoop(_, _, _)
EpsClosureLoop(st, ret, new_states) ==
  LET next_states ==
        UNION {{st[s + 1].eps[k] : k \in 1 .. Len(st[s + 1].eps)} : s \in new_states}
  IN  IF next_states \subseteq ret THEN ret
      ELSE EpsClosureLoop(st, ret \cup (next_states \ ret), next_states \ ret)

\* Nfa::eps_closure
EpsClosure(st, S) == EpsClosureLoop(st, S, S)

\* Nfa::eps_closure_single
EpsClosureSingle(st, state) == EpsClosure(st, {state})

\* Accepting as it would be if it asked every state of the set to accept.
AcceptingAll(st, S) == \A s \in S : st[s + 1].accepting

\* Nfa::accepting
Accepting(st, S) == \E s \in S : st[s + 1].accepting

\* The flat_map of Nfa::transitions: the consuming edges of the states of S,
\* in ascending order of state (BitSet iteration), as a multi-map.
RECURSIVE RangesOf(_, _)
RangesOf(st, order) ==
  IF order = <<>> THEN <<>>
  ELSE LET rs == st[order[1] + 1].ranges
       IN  [k \in 1 .. Len(rs) |-> [range |-> rs[k].range, value |-> rs[k].target]]
           \o RangesOf(st, Tail(order))

\* Transitions as it would be without the eps-closure of the target sets.
TransitionsNoClosure(st, S) == Group(RangesOf(st, SortedSeqOf(S)))

\* Transitions as it would be if the edges were grouped by their ranges as
\* they are, without cutting them into atomic ranges.
TransitionsNoSplit(st, S) ==
  LET g == GroupNoSplit(RangesOf(st, SortedSeqOf(S)))
  IN  [k \in 1 .. Len(g) |-> [range |-> g[k].range, value |-> EpsClosure(st, g[k].value)]]

\* Nfa::transitions: NfaTransitions::collect_transition_pairs groups the
\* edges by atomic range as CharMultiMap::group does; every target set is
\* then eps-closed.
Transitions(st, S) ==
  LET g == Group(RangesOf(st, SortedSeqOf(S)))
  IN  [k \in 1 .. Len(g) |-> [range |-> g[k].range, value |-> EpsClosure(st, g[k].value)]]

\* Nfa::predicates: the predicate edges of the states of S, ascending.
RECURSIVE PredicatesOfSeq(_, _)
PredicatesOfSeq(st, order) ==
  IF order = <<>> THEN <<>>
  ELSE st[order[1] + 1].predicates \o PredicatesOfSeq(st, Tail(order))

Predicates(st, S) == PredicatesOfSeq(st, SortedSeqOf(S))

\* Nfa::add_transition
AddTransitionTo(st, from, to, r) ==
  [st EXCEPT ![from + 1].ranges = Append(@, [range |-> r, target |-> to])]

\* Nfa::add_eps
AddEpsTo(st, from, to) == [st EXCEPT ![from + 1].eps = Append(@, to)]

\* Nfa::add_predicate
AddPredicateTo(st, from, to, pred) ==
  [st EXCEPT ![from + 1].predicates = Append(@, [pred |-> pred, target |-> to])]

\* CharMultiMap::intersect: for every entry, the first range of the set whose
\* end reaches the entry's start (binary_search_by on the ends), then every
\* later range that starts no later than the entry ends.
MultiMapIntersectEntry(entry, other) ==
  LET from == {k \in 1 .. Len(other) : other[k].end >= entry.range.start}
      hits == {k \in from : entry.range.end >= other[k].start}
      order == SortedSeqOf(hits)
  IN  [n \in 1 .. Len(order) |->
         [range |-> RangeIntersection(entry.range, other[order[n]]),
          value |-> entry.value]]

RECURSIVE MultiMapIntersect(_, _)
MultiMapIntersect(elts, other) ==
  IF elts = <<>> THEN <<>>
  ELSE MultiMapIntersectEntry(elts[1], other) \o MultiMapIntersect(Tail(elts), other)

(***************************************************************************)
(* Predicate: the zero-width condition "the previous code point is in pin  *)
(* and the next one is in pout", both range sets.                          *)
(***************************************************************************)

Predicate(pin, pout) == [pin |-> pin, pout |-> pout]

\* Predicate::intersect: None when either class becomes empty.
PredicateIntersect(p, q) ==
  LET i == Intersect(p.pin, q.pin)
      o == Intersect(p.pout, q.pout)
  IN  IF i = <<>> \/ o = <<>> THEN [some |-> FALSE, pred |-> p]
      ELSE [some |-> TRUE, pred |-> Predicate(i, o)]

\* Predicate::filter_transitions: the incoming transitions cut to pin, the
\* outgoing ones cut to pout.
FilterTransitions(pred, in_trans, out_trans) ==
  [in_trans |-> MultiMapIntersect(in_trans, pred.pin),
   out_trans |-> MultiMapIntersect(out_trans, pred.pout)]

\* Nfa::reversed.  The predicate edge (pred, target) of a state is pushed
\* onto ret.states[target] as (pred, target).
RECURSIVE ReversedRanges(_, _, _)
ReversedRanges(st, t, i) ==
  IF i > Len(st) THEN <<>>
  ELSE LET rs == st[i].ranges
           hit == SortedSeqOf({k \in 1 .. Len(rs) : rs[k].target = t})
       IN  [n \in 1 .. Len(hit) |-> [range |-> rs[hit[n]].range, target |-> i - 1]]
           \o ReversedRanges(st, t, i + 1)

RECURSIVE ReversedEps(_, _, _)
ReversedEps(st, t, i) ==
  IF i > Len(st) THEN <<>>
  ELSE LET es == st[i].eps
           hit == SortedSeqOf({k \in 1 .. Len(es) : es[k] = t})
       IN  [n \in 1 .. Len(hit) |-> i - 1] \o ReversedEps(st, t, i + 1)

RECURSIVE ReversedPredicates(_, _, _)
ReversedPredicates(st, t, i) ==
  IF i > Len(st) THEN <<>>
  ELSE LET ps == st[i].predicates
           hit == SortedSeqOf({k \in 1 .. Len(ps) : ps[k].target = t})
       IN  [n \in 1 .. Len(hit) |-> [pred |-> ps[hit[n]].pred, target |-> t]]
           \o ReversedPredicates(st, t, i + 1)

Reversed(st) ==
  [j \in 1 .. Len(st) |->
     [ranges |-> ReversedRanges(st, j - 1, 1),
      eps |-> ReversedEps(st, j - 1, 1),
      predicates |-> ReversedPredicates(st, j - 1, 1),
      accepting |-> st[j].accepting]]

\* Vec::remove(index): panics when index >= len.
VecRemove(v, index) ==
  [k \in 1 .. Len(v) - 1 |-> IF k <= index THEN v[k] ELSE v[k + 1]]

\* The loop of remove_predicates_once that removes the predicates of one
\* state from the reversed copy: the k-th predicate (pred_idx = k - 1) is
\* removed from reversed.states[target] at position pred_idx.
RECURSIVE RemoveFromReversed(_, _, _)
RemoveFromReversed(rev, ps, k) ==
  IF k > Len(ps) THEN [panic |-> FALSE, rev |-> rev]
  ELSE LET target == ps[k].target
           pred_idx == k - 1
       IN  IF pred_idx >= Len(rev[target + 1].predicates)
           THEN [panic |-> TRUE, rev |-> rev]
           ELSE RemoveFromReversed(
                  [rev EXCEPT ![target + 1].predicates = VecRemove(@, pred_idx)],
                  ps, k + 1)

\* The (range, state) pairs of a transition table, table order first and
\* ascending state within one entry (`for (range, sources) in trans { for
\* source in sources`).
RECURSIVE PairsOf(_)
PairsOf(trans) ==
  IF trans = <<>> THEN <<>>
  ELSE LET order == SortedSeqOf(trans[1].value)
       IN  [n \in 1 .. Len(order) |-> [range |-> trans[1].range, state |-> order[n]]]
           \o PairsOf(Tail(trans))

\* The first rewiring loop: a copy of every surviving incoming transition,
\* leading into new_idx (pair.fwd), mirrored in the reversed copy (pair.rev).
RECURSIVE WireIn(_, _, _)
WireIn(pair, ins, new_idx) ==
  IF ins = <<>> THEN pair
  ELSE WireIn([fwd |-> AddTransitionTo(pair.fwd, ins[1].state, new_idx, ins[1].range),
               rev |-> AddTransitionTo(pair.rev, new_idx, ins[1].state, ins[1].range)],
              Tail(ins), new_idx)

\* The second loop: the predicates found on the incoming side, intersected
\* with pred.
RECURSIVE WireInPredicates(_, _, _, _)
WireInPredicates(pair, pred, others, new_idx) ==
  IF others = <<>> THEN pair
  ELSE LET p == PredicateIntersect(pred, others[1].pred)
           source == others[1].target
       IN  WireInPredicates(
             IF p.some
             THEN [fwd |-> AddPredicateTo(pair.fwd, source, new_idx, p.pred),
                   rev |-> AddPredicateTo(pair.rev, new_idx, source, p.pred)]
             ELSE pair,
             pred, Tail(others), new_idx)

\* The third loop: a copy of every surviving outgoing transition, leading
\* out of new_idx.
RECURSIVE WireOut(_, _, _)
WireOut(pair, outs, new_idx) ==
  IF outs = <<>> THEN pair
  ELSE WireOut([fwd |-> AddTransitionTo(pair.fwd, new_idx, outs[1].state, outs[1].range),
                rev |-> AddTransitionTo(pair.rev, outs[1].state, new_idx, outs[1].range)],
               Tail(outs), new_idx)

\* The fourth loop: the predicates found on the outgoing side.
RECURSIVE WireOutPredicates(_, _, _, _)
WireOutPredicates(pair, pred, others, new_idx) ==
  IF others = <<>> THEN pair
  ELSE LET p == PredicateIntersect(pred, others[1].pred)
           target == others[1].target
       IN  WireOutPredicates(
             IF p.some
             THEN [fwd |-> AddPredicateTo(pair.fwd, new_idx, target, p.pred),
                   rev |-> AddPredicateTo(pair.rev, target, new_idx, p.pred)]
             ELSE pair,
             pred, Tail(others), new_idx)

\* The body of `for &(ref pred, pred_target_idx) in &preds` for the
\* predicate edge (pred, pred_target_idx) of state a.
RewirePredicate(st, rev, a, pred, pred_target_idx) ==
  LET p0 == [fwd |-> Append(st, NfaState(FALSE)), rev |-> Append(rev, NfaState(FALSE))]
      new_idx == Len(p0.fwd) - 1
      in_states == EpsClosureSingle(p0.rev, a)
      out_states == EpsClosureSingle(p0.fwd, pred_target_idx)
      ft == FilterTransitions(pred, Transitions(p0.rev, in_states),
                              Transitions(p0.fwd, out_states))
      p1 == WireIn(p0, PairsOf(ft.in_trans), new_idx)
      p2 == WireInPredicates(p1, pred, Predicates(p1.rev, in_states), new_idx)
      p3 == WireOut(p2, PairsOf(ft.out_trans), new_idx)
  IN  WireOutPredicates(p3, pred, Predicates(p3.fwd, out_states), new_idx)

(***************************************************************************)
(* Dfa: the sink determinize fills.  accepting[i + 1] is the tag of DFA    *)
(* state i, trans[i + 1] its transitions.                                  *)
(***************************************************************************)

\* Dfa::new
DfaNew == [accepting |-> <<>>, trans |-> <<>>]

\* Dfa::add_state
DfaAddState(d, acc) ==
  [accepting |-> Append(d.accepting, acc), trans |-> Append(d.trans, <<>>)]

\* Dfa::num_states
DfaNumStates(d) == Len(d.accepting)

\* Dfa::add_transition
DfaAddTransition(d, from, to, r) ==
  [d EXCEPT !.trans[from + 1] = Append(@, [range |-> r, target |-> to])]

RECURSIVE InsertTrans(_, _)
InsertTrans(sorted, t) ==
  IF sorted = <<>> THEN <<t>>
  ELSE IF sorted[Len(sorted)].range.start <= t.range.start THEN Append(sorted, t)
  ELSE Append(InsertTrans(SubSeq(sorted, 1, Len(sorted) - 1), t), sorted[Len(sorted)])

RECURSIVE SortTrans(_)
SortTrans(v) ==
  IF v = <<>> THEN <<>>
  ELSE InsertTrans(SortTrans(SubSeq(v, 1, Len(v) - 1)), v[Len(v)])

\* Dfa::sort_transitions
DfaSortTransitions(d) ==
  [d EXCEPT !.trans = [i \in 1 .. Len(d.trans) |-> SortTrans(d.trans[i])]]

\* DeterminizeEdge as it would be without the lookup in state_map: every
\* target set gets a new DFA state.
DeterminizeEdgeNoDedup(st, loc, state_idx, range, target) ==
  LET d == DfaAddState(loc.ret, Accepting(st, target))
      target_idx == DfaNumStates(d) - 1
  IN  [ret |-> DfaAddTransition(d, state_idx, target_idx, range),
       active_states |-> Append(loc.active_states, target),
       state_map |-> (target :> target_idx) @@ loc.state_map]

\* The body of determinize's `for (range, target) in trans`: loc holds the
\* three things the loop changes.
DeterminizeEdge(st, loc, state_idx, range, target) ==
  IF target \in DOMAIN loc.state_map
  THEN [loc EXCEPT !.ret = DfaAddTransition(@, state_idx, loc.state_map[target], range)]
  ELSE LET d == DfaAddState(loc.ret, Accepting(st, target))
           target_idx == DfaNumStates(d) - 1
       IN  [ret |-> DfaAddTransition(d, state_idx, target_idx, range),
            active_states |-> Append(loc.active_states, target),
            state_map |-> (target :> target_idx) @@ loc.state_map]

RECURSIVE DeterminizeEdges(_, _, _, _, _)
DeterminizeEdges(st, loc, state_idx, trans, k) ==
  IF k > Len(trans) THEN loc
  ELSE DeterminizeEdges(st,
         DeterminizeEdge(st, loc, state_idx, trans[k].range, trans[k].value),
         state_idx, trans, k + 1)

(***************************************************************************)
(* The state.                                                              *)
(*   cs_a, cs_b, cs_op, cs_out   a range-set operation: its operands, its  *)
(*                               name ("none" before it ran), its result   *)
(*   states                      self.states of the Nfa                    *)
(*   pc                          where the NFA pipeline stands             *)
(*   nfa0                        the NFA as remove_predicates received it  *)
(*   reversed, orig_len, idx     the locals of remove_predicates_once      *)
(*   preds, pred_i               the cloned predicate list of state idx    *)
(*                               and the position of the next one to wire  *)
(*   ret, state_map,                                                       *)
(*   active_states               the locals of determinize                 *)
(*   expanded                    the state sets popped so far, in order    *)
(***************************************************************************)
VARIABLES cs_a, cs_b, cs_op, cs_out,
          states, pc, nfa0,
          reversed, orig_len, idx, preds, pred_i,
          ret, state_map, active_states, expanded

csvars == <<cs_a, cs_b, cs_op, cs_out>>

rpvars == <<nfa0, reversed, orig_len, idx, preds, pred_i>>

detvars == <<ret, state_map, active_states, expanded>>

nfavars == <<states, pc, rpvars, detvars>>

vars == <<csvars, nfavars>>

\* The most states and edges the builder gives an NFA.
MaxStates == 3

MaxEdges == 3

\* The symbols the built NFA's ranges are cut from: 0 .. MaxSym.
MaxSym == 1

\* The ranges of the builder's consuming edges: every non-empty range of
\* symbols, and the full range (which ends at the maximum code point).
BuildRanges ==
  {r \in AllRanges : ~RangeIsEmpty(r) /\ r.end <= MaxSym} \cup {CharRange(0, MaxCode)}

\* The predicates the builder attaches: previous code point 0 and next 1,
\* the other way round, and the two with the full class on one side.
BuildPreds ==
  {Predicate(<<CharRange(0, 0)>>, <<CharRange(MaxSym, MaxSym)>>),
   Predicate(<<CharRange(MaxSym, MaxSym)>>, <<CharRange(0, 0)>>),
   Predicate(<<CharRange(0, MaxCode)>>, <<CharRange(0, MaxCode)>>)}

\* The most states predicate elimination may grow the NFA to in the model.
MaxRpStates == 7

NoSet == [panic |-> FALSE, elts |-> <<>>]

SetIdle ==
  /\ cs_a = <<>>
  /\ cs_b = <<>>
  /\ cs_op = "none"
  /\ cs_out = NoSet

\* Nfa::new, and the locals of the two algorithms before either runs.
NfaIdle ==
  /\ states = <<>>
  /\ pc = "build"
  /\ nfa0 = <<>>
  /\ reversed = <<>>
  /\ orig_len = 0
  /\ idx = 0
  /\ preds = <<>>
  /\ pred_i = 0
  /\ ret = DfaNew
  /\ state_map = <<>>
  /\ active_states = <<>>
  /\ expanded = <<>>

(***************************************************************************)
(* Range-set operations.                                                   *)
(***************************************************************************)

SetInit ==
  /\ cs_a \in RangeSets
  /\ cs_b = <<>>
  /\ cs_op = "none"
  /\ cs_out = NoSet
  /\ NfaIdle

DoNegated ==
  /\ cs_op = "none"
  /\ cs_op' = "negated"
  /\ cs_out' = [panic |-> FALSE, elts |-> Negated(cs_a)]
  /\ UNCHANGED <<cs_a, cs_b, nfavars>>

DoUnionNegated ==
  /\ cs_op = "none"
  /\ cs_op' = "union_negated"
  /\ cs_out' = Union(cs_a, Negated(cs_a))
  /\ UNCHANGED <<cs_a, cs_b, nfavars>>

DoIntersectNegated ==
  /\ cs_op = "none"
  /\ cs_op' = "intersect_negated"
  /\ cs_out' = [panic |-> FALSE, elts |-> Intersect(cs_a, Negated(cs_a))]
  /\ UNCHANGED <<cs_a, cs_b, nfavars>>

DoUnion ==
  /\ cs_op = "none"
  /\ \E b \in RangeSets :
       /\ cs_b' = b
       /\ cs_out' = Union(cs_a, b)
  /\ cs_op' = "union"
  /\ UNCHANGED <<cs_a, nfavars>>

DoIntersect ==
  /\ cs_op = "none"
  /\ \E b \in RangeSets :
       /\ cs_b' = b
       /\ cs_out' = [panic |-> FALSE, elts |-> Intersect(cs_a, b)]
  /\ cs_op' = "intersect"
  /\ UNCHANGED <<cs_a, nfavars>>

SetNext ==
  \/ DoNegated
  \/ DoUnionNegated
  \/ DoIntersectNegated
  \/ DoUnion
  \/ DoIntersect

SpecSet == SetInit /\ [][SetNext]_vars

(***************************************************************************)
(* CharSet::except, CharMap::normalize, CharMap::push and CharMap::sort.   *)
(* cs_a holds the input (the chars of the string, the entries of the map,  *)
(* the ranges pushed so far), cs_out the result.                           *)
(***************************************************************************)

\* The most chars of an input string, the most ranges pushed before a sort.
MaxChars == 3

MaxPush == 3

\* The values of a map are 0 .. MaxVal.
MaxVal == 1

Values == 0 .. MaxVal

\* Every string of at most MaxChars chars, sorted or not.
CharSeqs == UNION {[1 .. n -> Chars] : n \in 0 .. MaxChars}

\* Every sorted map of non-overlapping ranges, of at most MaxRanges entries.
RangeMaps ==
  UNION {{[i \in 1 .. Len(rs) |-> [range |-> rs[i], value |-> vs[i]]] :
            vs \in [1 .. Len(rs) -> Values]} : rs \in RangeSets}

DoExcept ==
  /\ cs_op = "none"
  /\ \E chars \in CharSeqs :
       /\ cs_a' = chars
       /\ cs_out' = Except(chars)
  /\ cs_op' = "except"
  /\ UNCHANGED <<cs_b, nfavars>>

DoNormalize ==
  /\ cs_op = "none"
  /\ \E m \in RangeMaps :
       /\ cs_a' = m
       /\ cs_out' = [panic |-> FALSE, elts |-> Normalize(m)]
  /\ cs_op' = "normalize"
  /\ UNCHANGED <<cs_b, nfavars>>

\* CharMap::push on the map under construction.
DoPush ==
  /\ cs_op \in {"none", "push"}
  /\ Len(cs_a) < MaxPush
  /\ \E range \in AllRanges :
       LET p == Push(cs_a, range)
       IN  /\ cs_a' = p.elts
           /\ cs_op' = IF p.panic THEN "push_panic" ELSE "push"
  /\ UNCHANGED <<cs_b, cs_out, nfavars>>

\* CharMap::sort on the map the pushes built.
DoSort ==
  /\ cs_op \in {"none", "push"}
  /\ cs_out' = Sort(cs_a)
  /\ cs_op' = "sort"
  /\ UNCHANGED <<cs_a, cs_b, nfavars>>

MapNext ==
  \/ DoExcept
  \/ DoNormalize
  \/ DoPush
  \/ DoSort

\* An empty map under construction.
MapInit == SetIdle /\ NfaIdle

SpecMap == MapInit /\ [][MapNext]_vars

(***************************************************************************)
(* CharMultiMap::split and CharMultiMap<usize>::group.                     *)
(***************************************************************************)

\* The most entries of an input multi-map.
MaxEntries == 3

\* Every multi-map of at most MaxEntries entries with non-empty ranges, in
\* any order, overlapping or not.
MultiMaps ==
  UNION {[1 .. n -> [range : NonEmptyRanges, value : Values]] : n \in 0 .. MaxEntries}

DoSplit ==
  /\ cs_op = "none"
  /\ \E m \in MultiMaps :
       /\ cs_a' = m
       /\ cs_out' = [panic |-> FALSE, elts |-> Split(m)]
  /\ cs_op' = "split"
  /\ UNCHANGED <<cs_b, nfavars>>

DoGroup ==
  /\ cs_op = "none"
  /\ \E m \in MultiMaps :
       /\ cs_a' = m
       /\ cs_out' = [panic |-> FALSE, elts |-> Group(m)]
  /\ cs_op' = "group"
  /\ UNCHANGED <<cs_b, nfavars>>

MultiMapNext ==
  \/ DoSplit
  \/ DoGroup

MultiMapInit == SetIdle /\ NfaIdle

SpecMultiMap == MultiMapInit /\ [][MultiMapNext]_vars

(***************************************************************************)
(* Building an NFA with the four construction primitives.                  *)
(***************************************************************************)

NumEdges(st) ==
  LET n[i \in 0 .. Len(st)] ==
        IF i = 0 THEN 0
        ELSE n[i - 1] + Len(st[i].ranges) + Len(st[i].eps) + Len(st[i].predicates)
  IN  n[Len(st)]

AddState ==
  /\ pc = "build"
  /\ Len(states) < MaxStates
  /\ \E accepting \in BOOLEAN : states' = Append(states, NfaState(accepting))
  /\ UNCHANGED <<csvars, pc, rpvars, detvars>>

AddTransition ==
  /\ pc = "build"
  /\ NumEdges(states) < MaxEdges
  /\ \E from \in StateIdx(states), to \in StateIdx(states), r \in BuildRanges :
       states' = AddTransitionTo(states, from, to, r)
  /\ UNCHANGED <<csvars, pc, rpvars, detvars>>

AddEps ==
  /\ pc = "build"
  /\ NumEdges(states) < MaxEdges
  /\ \E from \in StateIdx(states), to \in StateIdx(states) :
       states' = AddEpsTo(states, from, to)
  /\ UNCHANGED <<csvars, pc, rpvars, detvars>>

AddPredicate ==
  /\ pc = "build"
  /\ NumEdges(states) < MaxEdges
  /\ \E from \in StateIdx(states), to \in StateIdx(states), pred \in BuildPreds :
       states' = AddPredicateTo(states, from, to, pred)
  /\ UNCHANGED <<csvars, pc, rpvars, detvars>>

(***************************************************************************)
(* Nfa::determinize, one action per iteration of its while loop.           *)
(***************************************************************************)

\* determinize up to its loop.  eps_closure indexes self.states[0], which
\* panics when the NFA has no state.
DeterminizeStart ==
  /\ pc \in {"build", "rp_done"}
  /\ IF Len(states) = 0
     THEN /\ pc' = "det_panic"
          /\ UNCHANGED detvars
     ELSE LET start_state == EpsClosureSingle(states, 0)
          IN  /\ ret' = DfaAddState(DfaNew, Accepting(states, start_state))
              /\ active_states' = <<start_state>>
              /\ state_map' = (start_state :> 0)
              /\ expanded' = <<>>
              /\ pc' = "det"
  /\ UNCHANGED <<csvars, states, rpvars>>

\* One iteration of `while active_states.len() > 0`.
DeterminizeStep ==
  /\ pc = "det"
  /\ Len(active_states) > 0
  /\ LET state == active_states[Len(active_states)]
         state_idx == state_map[state]
         trans == Transitions(states, state)
         loc == DeterminizeEdges(states,
                  [ret |-> ret,
                   active_states |-> SubSeq(active_states, 1, Len(active_states) - 1),
                   state_map |-> state_map],
                  state_idx, trans, 1)
     IN  /\ ret' = loc.ret
         /\ active_states' = loc.active_states
         /\ state_map' = loc.state_map
         /\ expanded' = Append(expanded, state)
  /\ UNCHANGED <<csvars, states, pc, rpvars>>

\* The worklist is empty: sort the transitions and return.
DeterminizeFinish ==
  /\ pc = "det"
  /\ Len(active_states) = 0
  /\ ret' = DfaSortTransitions(ret)
  /\ pc' = "det_done"
  /\ UNCHANGED <<csvars, states, rpvars, state_map, active_states, expanded>>

(***************************************************************************)
(* Nfa::remove_predicates: `while self.remove_predicates_once() {}`.  A    *)
(* pass is cut into the detaching of one state's predicates (RpDetach) and *)
(* the rewiring of each detached predicate (RpRewire).                     *)
(***************************************************************************)

\* The call, and the first pass up to its for loop.
RemovePredicates ==
  /\ pc = "build"
  /\ nfa0' = states
  /\ orig_len' = Len(states)
  /\ reversed' = Reversed(states)
  /\ idx' = 0
  /\ preds' = <<>>
  /\ pred_i' = 0
  /\ pc' = "rp_pass"
  /\ UNCHANGED <<csvars, states, detvars>>

\* `for idx in 0..orig_len`, up to the rewiring loop: clone and clear the
\* predicates of state idx, remove them from the reversed copy.
RpDetach ==
  /\ pc = "rp_pass"
  /\ idx < orig_len
  /\ LET ps == states[idx + 1].predicates
         rm == RemoveFromReversed(reversed, ps, 1)
     IN  /\ states' = [states EXCEPT ![idx + 1].predicates = <<>>]
         /\ preds' = ps
         /\ IF rm.panic
            THEN /\ pc' = "rp_panic"
                 /\ UNCHANGED <<reversed, idx, pred_i>>
            ELSE /\ reversed' = rm.rev
                 /\ IF ps = <<>>
                    THEN /\ idx' = idx + 1
                         /\ pc' = "rp_pass"
                         /\ pred_i' = 0
                    ELSE /\ idx' = idx
                         /\ pc' = "rp_rewire"
                         /\ pred_i' = 1
  /\ UNCHANGED <<csvars, nfa0, orig_len, detvars>>

\* One iteration of the rewiring loop.  The model stops at MaxRpStates
\* states ("rp_capped"); the program has no such limit.
RpRewire ==
  /\ pc = "rp_rewire"
  /\ IF Len(states) >= MaxRpStates
     THEN /\ pc' = "rp_capped"
          /\ UNCHANGED <<states, reversed, idx, pred_i>>
     ELSE LET w == RewirePredicate(states, reversed, idx,
                                   preds[pred_i].pred, preds[pred_i].target)
          IN  /\ states' = w.fwd
              /\ reversed' = w.rev
              /\ IF pred_i < Len(preds)
                 THEN /\ pred_i' = pred_i + 1
                      /\ UNCHANGED <<idx, pc>>
                 ELSE /\ pred_i' = 0
                      /\ idx' = idx + 1
                      /\ pc' = "rp_pass"
  /\ UNCHANGED <<csvars, nfa0, orig_len, preds, detvars>>

\* The end of a pass: `self.states.len() > orig_len` starts the next pass,
\* otherwise remove_predicates returns.
RpPassEnd ==
  /\ pc = "rp_pass"
  /\ idx = orig_len
  /\ IF Len(states) > orig_len
     THEN /\ orig_len' = Len(states)
          /\ reversed' = Reversed(states)
          /\ idx' = 0
          /\ UNCHANGED pc
     ELSE /\ pc' = "rp_done"
          /\ UNCHANGED <<orig_len, reversed, idx>>
  /\ UNCHANGED <<csvars, states, nfa0, preds, pred_i, detvars>>

Init == SetIdle /\ NfaIdle

\* Building an NFA, then determinizing it.
Next ==
  \/ AddState
  \/ AddTransition
  \/ AddEps
  \/ AddPredicate
  \/ DeterminizeStart
  \/ DeterminizeStep
  \/ DeterminizeFinish

Spec == Init /\ [][Next]_vars

\* The most states and edges of an NFA handed to remove_predicates.
MaxRpNfaStates == 2

MaxRpNfaEdges == 3

SmallNfa == Len(states') <= MaxRpNfaStates /\ NumEdges(states') <= MaxRpNfaEdges

\* Building a small NFA, eliminating its predicates, then determinizing it.
NextRp ==
  \/ AddState /\ SmallNfa
  \/ AddTransition /\ SmallNfa
  \/ AddEps /\ SmallNfa
  \/ AddPredicate /\ SmallNfa
  \/ RemovePredicates
  \/ RpDetach
  \/ RpRewire
  \/ RpPassEnd
  \/ pc = "rp_done" /\ DeterminizeStart
  \/ DeterminizeStep
  \/ DeterminizeFinish

SpecRp == Init /\ [][NextRp]_vars

(***************************************************************************)
(* What the automata accept, for the claims.  Input strings are over       *)
(* Alphabet and at most MaxLen long.  Every range and predicate class of a *)
(* built NFA has its ends in 0 .. MaxSym or at MaxCode, so the code points *)
(* strictly between MaxSym + 1 and MaxCode all behave like MaxSym + 1.     *)
(***************************************************************************)

MaxLen == 3

Alphabet == (0 .. MaxSym + 1) \cup {MaxCode}

\* No code point: before the first and after the last one of the input.
NoChar == 0 - 1

HasPredicates(st) == \E i \in 1 .. Len(st) : st[i].predicates # <<>>

\* A predicate holds between the code points prev and next.
PredicateHolds(p, prev, next) ==
  /\ prev # NoChar
  /\ next # NoChar
  /\ InSet(p.pin, prev)
  /\ InSet(p.pout, next)

\* The states reachable from S without consuming input, between the code
\* points prev and next: by epsilon edges and by predicate edges that hold.
ZeroStep(st, S, prev, next) ==
  S \cup UNION {{st[s + 1].eps[k] : k \in 1 .. Len(st[s + 1].eps)} : s \in S}
    \cup UNION {{st[s + 1].predicates[k].target :
                   k \in {j \in 1 .. Len(st[s + 1].predicates) :
                            PredicateHolds(st[s + 1].predicates[j].pred, prev, next)}} :
                s \in S}

ZeroClosure(st, S, prev, next) ==
  LET R[n \in 0 .. Len(st)] ==
        IF n = 0 THEN S ELSE ZeroStep(st, R[n - 1], prev, next)
  IN  R[Len(st)]

\* The states entered by consuming c from a state of Z.
Consume(st, Z, c) ==
  UNION {{st[s + 1].ranges[k].target :
            k \in {j \in 1 .. Len(st[s + 1].ranges) :
                     RangeContains(st[s + 1].ranges[j].range, c)}} : s \in Z}

\* The NFA in the states `raw` (entered by consuming prev) consumes c.
NfaConsume(st, raw, prev, c) == Consume(st, ZeroClosure(st, raw, prev, c), c)

\* The NFA in the states `raw` accepts at the end of the input.
NfaAcceptsAtEnd(st, raw, prev) ==
  \E s \in ZeroClosure(st, raw, prev, NoChar) : st[s + 1].accepting

\* The NFA without its predicate edges.
StripPredicates(st) == [i \in 1 .. Len(st) |-> [st[i] EXCEPT !.predicates = <<>>]]

\* The DFA states entered from a state of D on c (one at most when the
\* ranges leaving a state are disjoint).
DfaConsume(d, D, c) ==
  UNION {{d.trans[q + 1][k].target :
            k \in {j \in 1 .. Len(d.trans[q + 1]) :
                     RangeContains(d.trans[q + 1][j].range, c)}} : q \in D}

DfaAcceptsAtEnd(d, D) == \E q \in D : d.accepting[q + 1]

\* Where the NFA st and the DFA d stand after the input strings that extend,
\* by at most n code points, the strings that lead to the places F.
RECURSIVE NfaDfaRuns(_, _, _, _)
NfaDfaRuns(st, d, F, n) ==
  IF n = 0 THEN F
  ELSE F \cup NfaDfaRuns(st, d,
                {[nfa |-> NfaConsume(st, p.nfa, p.prev, c),
                  dfa |-> DfaConsume(d, p.dfa, c),
                  prev |-> c] : p \in F, c \in Alphabet},
                n - 1)

\* Both automata start in their state 0.
NfaDfaStart == {[nfa |-> {0}, dfa |-> {0}, prev |-> NoChar]}

\* The DFA accepts exactly the strings of length <= MaxLen the NFA accepts.
SameLanguageNfaDfa(st, d) ==
  \A p \in NfaDfaRuns(st, d, NfaDfaStart, MaxLen) :
    NfaAcceptsAtEnd(st, p.nfa, p.prev) <=> DfaAcceptsAtEnd(d, p.dfa)

\* The same for two NFAs, both started in state 0.
RECURSIVE NfaNfaRuns(_, _, _, _)
NfaNfaRuns(st1, st2, F, n) ==
  IF n = 0 THEN F
  ELSE F \cup NfaNfaRuns(st1, st2,
                {[a |-> NfaConsume(st1, p.a, p.prev, c),
                  b |-> NfaConsume(st2, p.b, p.prev, c),
                  prev |-> c] : p \in F, c \in Alphabet},
                n - 1)

NfaNfaStart == {[a |-> {0}, b |-> {0}, prev |-> NoChar]}

SameLanguageNfaNfa(st1, st2) ==
  \A p \in NfaNfaRuns(st1, st2, NfaNfaStart, MaxLen) :
    NfaAcceptsAtEnd(st1, p.a, p.prev) <=> NfaAcceptsAtEnd(st2, p.b, p.prev)

\* The epsilon-closure of S, as the limit of adding epsilon successors.
EpsReach(st, S) == ZeroClosure(StripPredicates(st), S, NoChar, NoChar)

\* The epsilon-closed state sets subset construction can reach from the
\* closure of {0}: the least family closed under consuming a code point.
RECURSIVE ReachableFrom(_, _)
ReachableFrom(st, F) ==
  LET G == F \cup ({EpsReach(st, Consume(st, S, c)) : S \in F, c \in Alphabet} \ {{}})
  IN  IF G = F THEN F ELSE ReachableFrom(st, G)

ReachableSets(st) == ReachableFrom(st, {EpsReach(st, {0})})

(***************************************************************************)
(* Claims about the range-set algebra, checked under SpecSet.              *)
(***************************************************************************)

\* C7: for every range set A, A.union(A.negated()) contains every code
\* point from 0 to the maximum.
C7_UnionNegatedCoversAll ==
  cs_op = "union_negated" =>
    /\ ~cs_out.panic
    /\ \A c \in Codes : InSet(cs_out.elts, c)

\* C8: for every range set A, A.intersect(A.negated()) is the empty set.
C8_IntersectNegatedEmpty ==
  cs_op = "intersect_negated" => cs_out.elts = <<>>

\* C8 witness: the intersection was taken of a non-empty A with a non-empty
\* complement that has a range next to a range of A.
C8_Witness ==
  /\ cs_op = "intersect_negated"
  /\ Len(cs_a) >= 2
  /\ Len(Negated(cs_a)) >= 2

\* C9: A.union(B) and B.union(A) are the same range sequence, which is a
\* sorted, non-overlapping set holding exactly the code points of A or B.
C9_UnionCommutesAndIsUnion ==
  cs_op = "union" =>
    /\ ~cs_out.panic
    /\ cs_out = Union(cs_b, cs_a)
    /\ IsRangeSet(cs_out.elts)
    /\ \A c \in Codes : InSet(cs_out.elts, c) <=> (InSet(cs_a, c) \/ InSet(cs_b, c))

\* C9 witness: a union of two non-empty sets in which ranges were merged.
C9_Witness ==
  /\ cs_op = "union"
  /\ Len(cs_a) >= 2
  /\ Len(cs_b) >= 2
  /\ Len(cs_out.elts) = 1

\* C10: A.intersect(B) and B.intersect(A) are the same range sequence, which
\* holds exactly the code points that are in both A and B.
C10_IntersectCommutesAndIsIntersection ==
  cs_op = "intersect" =>
    /\ cs_out.elts = Intersect(cs_b, cs_a)
    /\ \A c \in Codes : InSet(cs_out.elts, c) <=> (InSet(cs_a, c) /\ InSet(cs_b, c))

\* C10 witness: an intersection in which one range of A meets two of B.
C10_Witness ==
  /\ cs_op = "intersect"
  /\ Len(cs_a) = 1
  /\ Len(cs_b) >= 2
  /\ Len(cs_out.elts) >= 2

(***************************************************************************)
(* Claims about the NFA algorithms, checked under Spec.                    *)
(***************************************************************************)

\* C1: for every finite NFA remove_predicates terminates (it never aborts),
\* and when it returns no state has a predicate edge.
C1_RemovePredicatesTerminatesClean ==
  /\ pc # "rp_panic"
  /\ pc = "rp_done" => ~HasPredicates(states)

\* C2: for every predicate-free NFA, the DFA determinize returns accepts
\* exactly the input strings the NFA started in state 0 accepts.
C2_DeterminizeSameLanguage ==
  (pc = "det_done" /\ ~HasPredicates(states)) => SameLanguageNfaDfa(states, ret)

\* C2 witness: a finished DFA of at least three states for a predicate-free
\* NFA with an epsilon edge, which accepts some non-empty string and
\* rejects, in a live state, another.
C2_Witness ==
  /\ pc = "det_done"
  /\ ~HasPredicates(states)
  /\ DfaNumStates(ret) >= 3
  /\ \E i \in 1 .. Len(states) : states[i].eps # <<>>
  /\ \E p \in NfaDfaRuns(states, ret, NfaDfaStart, MaxLen) :
       p.prev # NoChar /\ DfaAcceptsAtEnd(ret, p.dfa)
  /\ \E p \in NfaDfaRuns(states, ret, NfaDfaStart, MaxLen) :
       p.prev # NoChar /\ p.dfa # {} /\ ~DfaAcceptsAtEnd(ret, p.dfa)

\* C6: the NFA remove_predicates produces accepts the strings the original
\* accepts along a path whose predicates all hold where they are crossed.
C6_RemovePredicatesSameLanguage ==
  (pc = "rp_done" /\ Len(nfa0) >= 1) => SameLanguageNfaNfa(nfa0, states)

\* The range of a sequence.
Range(q) == {q[i] : i \in 1 .. Len(q)}

NoDuplicates(q) == \A i \in 1 .. Len(q) : \A j \in 1 .. Len(q) : q[i] = q[j] => i = j

\* C3: a DFA state is tagged accepting iff the epsilon-closed NFA state set
\* it was created for contains an accepting NFA state; DFA state 0 is the
\* state of the epsilon-closure of {0}.
C3_AcceptingTags ==
  pc \in {"det", "det_done"} =>
    /\ EpsReach(states, {0}) \in DOMAIN state_map
    /\ state_map[EpsReach(states, {0})] = 0
    /\ \A i \in 0 .. DfaNumStates(ret) - 1 : \E S \in DOMAIN state_map : state_map[S] = i
    /\ \A S \in DOMAIN state_map :
         /\ S = EpsReach(states, S)
         /\ ret.accepting[state_map[S] + 1] <=> (\E s \in S : states[s + 1].accepting)

\* C3 witness: a finished DFA with an accepting and a non-accepting state,
\* whose state 0 stands for more than NFA state 0, and with an accepting
\* state whose set also holds a non-accepting NFA state.
C3_Witness ==
  /\ pc = "det_done"
  /\ EpsReach(states, {0}) # {0}
  /\ \E i \in 1 .. DfaNumStates(ret) : ~ret.accepting[i]
  /\ \E S \in DOMAIN state_map :
       /\ ret.accepting[state_map[S] + 1]
       /\ \E s \in S : ~states[s + 1].accepting

\* C4: determinize terminates on a predicate-free NFA with N >= 1 states:
\* the sets popped and the sets waiting are distinct sets of the dedup
\* table, so the loop runs at most 2^N times and never aborts.  No state
\* set has two DFA indices, every set is expanded exactly once, and the
\* DFA has exactly one state per epsilon-closed set reachable from the
\* closure of {0}, at most 2^N.
C4_OneStatePerReachableSet ==
  (~HasPredicates(states) /\ Len(states) >= 1) =>
    /\ pc # "det_panic"
    /\ pc \in {"det", "det_done"} =>
         /\ Cardinality(DOMAIN state_map) = DfaNumStates(ret)
         /\ \A S \in DOMAIN state_map : \A T \in DOMAIN state_map :
              state_map[S] = state_map[T] => S = T
         /\ NoDuplicates(expanded \o active_states)
         /\ Range(expanded \o active_states) = DOMAIN state_map
         /\ DOMAIN state_map \subseteq ReachableSets(states)
         /\ DfaNumStates(ret) <= 2 ^ Len(states)
    /\ pc = "det_done" =>
         /\ active_states = <<>>
         /\ Range(expanded) = ReachableSets(states)
         /\ DfaNumStates(ret) = Cardinality(ReachableSets(states))

\* The number of transitions of a DFA.
DfaNumTransitions(d) ==
  LET n[i \in 0 .. Len(d.trans)] == IF i = 0 THEN 0 ELSE n[i - 1] + Len(d.trans[i])
  IN  n[Len(d.trans)]

\* C4 witness: a finished DFA of at least four states in which some target
\* set was met again (more transitions than states, so the lookup hit).
C4_Witness ==
  /\ pc = "det_done"
  /\ ~HasPredicates(states)
  /\ DfaNumStates(ret) >= 4
  /\ DfaNumTransitions(ret) > DfaNumStates(ret)

\* C5 as claimed: determinize on an NFA that still has a predicate edge
\* aborts instead of returning a DFA.
C5_DeterminizeAbortsOnPredicates ==
  pc = "det_done" => ~HasPredicates(states)

\* C5 amended: determinize does not look at predicate edges.  On an NFA that
\* still has predicate edges it does not abort, and the DFA it returns
\* accepts exactly the strings the NFA accepts without crossing a predicate
\* edge.
C5_DeterminizeIgnoresPredicates ==
  HasPredicates(states) =>
    /\ pc # "det_panic"
    /\ pc = "det_done" => SameLanguageNfaDfa(StripPredicates(states), ret)

\* C5 witness: a DFA returned for an NFA with a predicate edge that the NFA
\* crosses to accept a string the DFA rejects.
C5_Witness ==
  /\ pc = "det_done"
  /\ HasPredicates(states)
  /\ ~SameLanguageNfaDfa(states, ret)


(***************************************************************************)
(* Claims about except, normalize and sort, checked under SpecMap.         *)
(***************************************************************************)

\* s is strictly ascending: sorted and free of duplicates.
StrictlyAscending(s) == \A i \in 1 .. Len(s) - 1 : s[i] < s[i + 1]

\* C11: for every sorted, duplicate-free sequence s of code points except(s)
\* does not fail and returns a sorted, non-overlapping range set that holds
\* a code point iff it is not in s; for the empty sequence it returns the
\* full set.
C11_ExceptIsComplement ==
  (cs_op = "except" /\ StrictlyAscending(cs_a)) =>
    /\ ~cs_out.panic
    /\ IsRangeSet(cs_out.elts)
    /\ \A c \in Codes :
         InSet(cs_out.elts, c) <=> ~(\E i \in 1 .. Len(cs_a) : cs_a[i] = c)
    /\ cs_a = <<>> => cs_out.elts = <<CharRange(0, MaxCode)>>

\* C11 witness: except of a sequence that starts at code point 0, holds two
\* consecutive code points and leaves a gap before a later one.
C11_Witness ==
  /\ cs_op = "except"
  /\ Len(cs_a) = 3
  /\ cs_a[1] = 0
  /\ cs_a[2] = 1
  /\ cs_a[3] > 2
  /\ Len(cs_out.elts) = 2

\* C12: except(s) panics iff s is not strictly ascending.
C12_ExceptPanicsIffNotAscending ==
  cs_op = "except" => (cs_out.panic <=> ~StrictlyAscending(cs_a))

\* C12 witness: except panicked on a sequence that repeats a code point and
\* is otherwise ascending.
C12_Witness ==
  /\ cs_op = "except"
  /\ cs_out.panic
  /\ Len(cs_a) = 3
  /\ cs_a[1] < cs_a[2]
  /\ cs_a[2] = cs_a[3]

\* Entry i of a map and the one after it are adjacent with equal values.
Mergeable(m, i) ==
  /\ m[i + 1].range.start = m[i].range.end + 1
  /\ m[i + 1].value = m[i].value

\* The ends of the runs of entries normalize merges: the positions whose
\* entry is not merged with the next one.
RunEnds(m) == {i \in 1 .. Len(m) : i = Len(m) \/ ~Mergeable(m, i)}

\* C13: normalize leaves get(c) unchanged for every code point c, merges two
\* consecutive entries exactly when the second starts at the first's end + 1
\* with an equal value (the output has one entry per run of such entries,
\* from the start of the run to its end), and normalizing again changes
\* nothing.
C13_NormalizeMergesAndKeepsGet ==
  cs_op = "normalize" =>
    /\ \A c \in Codes : Get(cs_out.elts, c) = Get(cs_a, c)
    /\ Len(cs_out.elts) = Cardinality(RunEnds(cs_a))
    /\ \A k \in 1 .. Len(cs_out.elts) :
         /\ \E i \in RunEnds(cs_a) : cs_out.elts[k].range.end = cs_a[i].range.end
         /\ \E i \in 1 .. Len(cs_a) :
              /\ cs_out.elts[k].range.start = cs_a[i].range.start
              /\ cs_out.elts[k].value = cs_a[i].value
              /\ i = 1 \/ ~Mergeable(cs_a, i - 1)
    /\ \A k \in 1 .. Len(cs_out.elts) - 1 : ~Mergeable(cs_out.elts, k)
    /\ Normalize(cs_out.elts) = cs_out.elts

\* C13 witness: a map of three entries of which the first two were merged
\* and the third, adjacent with another value, was kept.
C13_Witness ==
  /\ cs_op = "normalize"
  /\ Len(cs_a) = 3
  /\ Mergeable(cs_a, 1)
  /\ cs_a[3].range.start = cs_a[2].range.end + 1
  /\ cs_a[3].value # cs_a[2].value
  /\ Len(cs_out.elts) = 2

\* C17: sort panics iff two of the pushed ranges share a code point; when it
\* does not panic the entries are the pushed ranges in ascending order of
\* start, each ending strictly before the next starts.
C17_SortPanicsIffOverlap ==
  cs_op = "sort" =>
    /\ cs_out.panic <=>
         \E i \in 1 .. Len(cs_a) : \E j \in 1 .. Len(cs_a) :
           i # j /\ \E c \in Codes : RangeContains(cs_a[i], c) /\ RangeContains(cs_a[j], c)
    /\ ~cs_out.panic =>
         /\ Len(cs_out.elts) = Len(cs_a)
         /\ \A r \in AllRanges :
              Cardinality({i \in 1 .. Len(cs_a) : cs_a[i] = r})
                = Cardinality({i \in 1 .. Len(cs_a) : cs_out.elts[i] = r})
         /\ \A i \in 1 .. Len(cs_a) - 1 :
              /\ cs_out.elts[i].start < cs_out.elts[i + 1].start
              /\ cs_out.elts[i].end < cs_out.elts[i + 1].start

\* C17 witness: three ranges pushed out of order, of which the first and the
\* last pushed share exactly one code point, and sort panicked.
C17_Witness ==
  /\ cs_op = "sort"
  /\ cs_out.panic
  /\ Len(cs_a) = 3
  /\ cs_a[1].start > cs_a[2].end
  /\ cs_a[3].end = cs_a[1].start
  /\ cs_a[3].start > cs_a[2].end


(***************************************************************************)
(* Claims about split and group, checked under SpecMultiMap.               *)
(***************************************************************************)

\* Two ranges share a code point.
Overlap(r, o) == \E c \in Codes : RangeContains(r, c) /\ RangeContains(o, c)

\* C14: any two ranges in the output of split are identical or disjoint,
\* also when input ranges end at the maximum code point.
C14_SplitIdenticalOrDisjoint ==
  cs_op = "split" =>
    \A i \in 1 .. Len(cs_out.elts) : \A j \in 1 .. Len(cs_out.elts) :
      \/ cs_out.elts[i].range = cs_out.elts[j].range
      \/ ~Overlap(cs_out.elts[i].range, cs_out.elts[j].range)

\* C14 witness: a split of three entries, two of which overlap partly and
\* one of which ends at the maximum code point inside which another starts.
C14_Witness ==
  /\ cs_op = "split"
  /\ Len(cs_a) = 3
  /\ cs_a[1].range.start < cs_a[2].range.start
  /\ cs_a[2].range.start <= cs_a[1].range.end
  /\ cs_a[1].range.end < cs_a[2].range.end
  /\ cs_a[3].range.end = MaxCode
  /\ cs_a[3].range.start < cs_a[2].range.start
  /\ cs_a[2].range.end < MaxCode
  /\ Len(cs_out.elts) >= 7

\* The output of split from position pos on is, for the entries k, k + 1,
\* ... of the input in order, a run of fragments with the entry's value,
\* non-empty, each starting where the one before ended plus one, the first
\* at `start` and the last ending where the entry ends.
RECURSIVE FragmentRuns(_, _, _, _, _)
FragmentRuns(in, out, k, pos, start) ==
  IF k > Len(in) THEN pos = Len(out) + 1
  ELSE /\ pos <= Len(out)
       /\ out[pos].value = in[k].value
       /\ out[pos].range.start = start
       /\ ~RangeIsEmpty(out[pos].range)
       /\ out[pos].range.end <= in[k].range.end
       /\ IF out[pos].range.end = in[k].range.end
          THEN FragmentRuns(in, out, k + 1, pos + 1,
                            IF k < Len(in) THEN in[k + 1].range.start ELSE 0)
          ELSE FragmentRuns(in, out, k, pos + 1, out[pos].range.end + 1)

\* The values of the entries of a multi-map that cover the code point c.
ValuesAt(elts, c) ==
  {elts[i].value : i \in {j \in 1 .. Len(elts) : RangeContains(elts[j].range, c)}}

\* C15: split emits, for each input entry in input order, a run of fragments
\* with the entry's value that are non-empty, ascending, contiguous and cover
\* exactly the entry's range; every code point is covered by as many
\* fragments of a value as entries of that value covered it.
C15_SplitFragmentsCoverEntries ==
  cs_op = "split" =>
    /\ FragmentRuns(cs_a, cs_out.elts, 1, 1,
                    IF cs_a = <<>> THEN 0 ELSE cs_a[1].range.start)
    /\ \A c \in Codes : \A v \in Values :
         Cardinality({i \in 1 .. Len(cs_a) :
                        cs_a[i].value = v /\ RangeContains(cs_a[i].range, c)})
           = Cardinality({i \in 1 .. Len(cs_out.elts) :
                            cs_out.elts[i].value = v
                              /\ RangeContains(cs_out.elts[i].range, c)})

\* C15 witness: the first entry was cut into three fragments by a second
\* entry lying strictly inside it, which stayed whole.
C15_Witness ==
  /\ cs_op = "split"
  /\ Len(cs_a) = 2
  /\ cs_a[1].range.start < cs_a[2].range.start
  /\ cs_a[2].range.end < cs_a[1].range.end
  /\ cs_a[1].value # cs_a[2].value
  /\ Len(cs_out.elts) = 4
  /\ cs_out.elts[4] = cs_a[2]

\* C16: group returns a range map whose ranges are ascending by start and
\* pairwise disjoint; a code point is mapped iff some entry covers it, and
\* then to exactly the set of the values of the entries that cover it.
C16_GroupCollectsValues ==
  cs_op = "group" =>
    /\ \A k \in 1 .. Len(cs_out.elts) : ~RangeIsEmpty(cs_out.elts[k].range)
    /\ \A k \in 1 .. Len(cs_out.elts) - 1 :
         /\ cs_out.elts[k].range.start < cs_out.elts[k + 1].range.start
         /\ cs_out.elts[k].range.end < cs_out.elts[k + 1].range.start
    /\ \A c \in Codes :
         LET hits == {k \in 1 .. Len(cs_out.elts) : RangeContains(cs_out.elts[k].range, c)}
         IN  IF ValuesAt(cs_a, c) = {} THEN hits = {}
             ELSE /\ Cardinality(hits) = 1
                  /\ \A k \in hits : cs_out.elts[k].value = ValuesAt(cs_a, c)

\* C16 witness: a group of three entries given in descending order of start,
\* with a code point mapped to two values, one mapped to one value and one
\* not mapped.
C16_Witness ==
  /\ cs_op = "group"
  /\ Len(cs_a) = 3
  /\ cs_a[1].range.start > cs_a[2].range.start
  /\ cs_a[2].range.start > cs_a[3].range.start
  /\ \E k \in 1 .. Len(cs_out.elts) : Cardinality(cs_out.elts[k].value) = 2
  /\ \E k \in 1 .. Len(cs_out.elts) : Cardinality(cs_out.elts[k].value) = 1
  /\ \E c \in Codes : ValuesAt(cs_a, c) = {}


(***************************************************************************)
(* Claims about reversed and the detaching of predicates, checked under    *)
(* SpecRp.                                                                 *)
(***************************************************************************)

\* The consuming, epsilon and predicate edges of an NFA as triples
\* <<from, label, to>>, and the same read backwards, <<to, label, from>>.
RangeEdges(st) ==
  UNION {{<<i - 1, st[i].ranges[k].range, st[i].ranges[k].target>> :
            k \in 1 .. Len(st[i].ranges)} : i \in 1 .. Len(st)}

EpsEdges(st) ==
  UNION {{<<i - 1, "eps", st[i].eps[k]>> : k \in 1 .. Len(st[i].eps)} : i \in 1 .. Len(st)}

PredicateEdges(st) ==
  UNION {{<<i - 1, st[i].predicates[k].pred, st[i].predicates[k].target>> :
            k \in 1 .. Len(st[i].predicates)} : i \in 1 .. Len(st)}

Flipped(edges) == {<<e[3], e[2], e[1]>> : e \in edges}

\* C18: reversed() returns an NFA with the same number of states and the
\* same accepting flags, in which an edge y -> x of a kind and label exists
\* iff the original has the edge x -> y of that kind and label; a predicate
\* edge a -> b is stored at b and targets a.  (At the start of a pass,
\* `reversed` is what reversed() returned for `states`.)
C18_ReversedFlipsEveryEdge ==
  (pc = "rp_pass" /\ idx = 0) =>
    /\ Len(reversed) = Len(states)
    /\ \A i \in 1 .. Len(states) : reversed[i].accepting = states[i].accepting
    /\ RangeEdges(reversed) = Flipped(RangeEdges(states))
    /\ EpsEdges(reversed) = Flipped(EpsEdges(states))
    /\ PredicateEdges(reversed) = Flipped(PredicateEdges(states))

\* How many entries of a predicate list carry the predicate p.
CountPred(ps, p) == Cardinality({k \in 1 .. Len(ps) : ps[k].pred = p})

\* How many entries of a predicate list carry p and lead to state b.
CountPredTo(ps, p, b) ==
  Cardinality({k \in 1 .. Len(ps) : ps[k].pred = p /\ ps[k].target = b})

\* C19: when a pass processes a state a that has predicate edges, the step
\* does not fail, a's predicate edges are all removed from the forward
\* graph (and nothing else is), and from the reversed copy exactly one entry
\* per edge a -p-> b is removed, an entry of b's list carrying p; nothing
\* else in the reversed copy changes.
C19_DetachRemovesExactlyTheEdges ==
  [][(pc = "rp_pass" /\ idx < orig_len /\ states[idx + 1].predicates # <<>>) =>
       /\ pc' # "rp_panic"
       /\ states' = [states EXCEPT ![idx + 1].predicates = <<>>]
       /\ Len(reversed') = Len(reversed)
       /\ \A b \in 1 .. Len(reversed) :
            /\ reversed'[b].ranges = reversed[b].ranges
            /\ reversed'[b].eps = reversed[b].eps
            /\ reversed'[b].accepting = reversed[b].accepting
            /\ \A p \in BuildPreds :
                 CountPred(reversed'[b].predicates, p)
                   = CountPred(reversed[b].predicates, p)
                       - CountPredTo(states[idx + 1].predicates, p, b - 1)
  ]_vars


(***************************************************************************)
(* A claim about the transitions of the DFA, checked under Spec.           *)
(***************************************************************************)

\* C20: in the DFA determinize builds, the ranges of the transitions leaving
\* one state are pairwise disjoint, every transition's source and target
\* are DFA states that exist, and after determinize returns the transitions
\* of a state are in ascending order of range start.
C20_DfaTransitionsDisjointSorted ==
  pc \in {"det", "det_done"} =>
    /\ Len(ret.trans) = DfaNumStates(ret)
    /\ \A q \in 1 .. Len(ret.trans) :
         /\ \A i \in 1 .. Len(ret.trans[q]) :
              /\ ret.trans[q][i].target \in 0 .. DfaNumStates(ret) - 1
              /\ ~RangeIsEmpty(ret.trans[q][i].range)
              /\ \A j \in 1 .. Len(ret.trans[q]) :
                   i # j => ~Overlap(ret.trans[q][i].range, ret.trans[q][j].range)
         /\ pc = "det_done" =>
              \A i \in 1 .. Len(ret.trans[q]) - 1 :
                ret.trans[q][i].range.start < ret.trans[q][i + 1].range.start

\* C20 witness: a returned DFA with a state that has three transitions, cut
\* from ranges of NFA state 0 that overlap without being equal.
C20_Witness ==
  /\ pc = "det_done"
  /\ \E q \in 1 .. Len(ret.trans) : Len(ret.trans[q]) >= 3
  /\ \E i \in 1 .. Len(states[1].ranges) : \E j \in 1 .. Len(states[1].ranges) :
       /\ states[1].ranges[i].range # states[1].ranges[j].range
       /\ Overlap(states[1].ranges[i].range, states[1].ranges[j].range)

====
